---- MODULE Spec2Model ----
(***************************************************************************)
(* Model of DownloadManager (src/src/services/cache.ts, lines 115-254):    *)
(* the identity -> DownloadProgress map, the identity -> callbacks map,    *)
(* the promises of downloadModel / waitForDownload and the timers they     *)
(* schedule on the event loop.                                             *)
(*                                                                         *)
(* One action is one synchronous run-to-completion block of the event      *)
(* loop: the synchronous part of a downloadModel call, one progress_callback *)
(* invocation, the continuation after `await pipeline(...)` (try / catch / *)
(* finally), and one timer callback.                                       *)
(***************************************************************************)
EXTENDS Integers, Sequences, FiniteSets, TLC

\* ------------------------------------------------------------------ bounds
\* Total number of downloadModel calls made by the applications.
MaxCalls == 2
\* The same, for the runs that need an identity to be requested three times.
DeepCalls == 3
\* Total number of progress samples the Fetch Executor delivers.
MaxSamples == 1

\* Progress samples of the runs that follow one fetch's progressTracker.
TrackerSamples == 2

\* ------------------------------------------------------------------ inputs
ModelIds == {"m1", "m2"}
\* Identities are opaque keys, so the calls are enumerated up to renaming:
\* "m2" is requested only once "m1" has been.
FirstId == "m1"

\* The onProgress argument: a callback instance, or NoCallback when omitted.
\* cbThrow raises whenever it is invoked; cb1 returns normally.
NoCallback == "none"
Callbacks == {"cb1", "cbThrow"}
Faulty == {"cbThrow"}
CallbackError == "callback fault"
\* The callbacks of the three callers of the two-sample scenario, in call
\* order; none of them raises.
Observers == <<"cb1", "cb2", "cb3">>
AllCallbacks == Callbacks \cup {Observers[i] : i \in DOMAIN Observers}

\* Raw samples (progress.loaded, progress.total) of status 'progress'.
Samples == {<<500, 1000>>, <<1000, 1000>>}
\* Milliseconds Date.now() advanced since the previous sample.
TimeDeltas == {1000}

\* The samples and clock advances of the progressTracker runs: a sample with
\* no total yet, samples of a second file that start again below the last
\* one (the events are per file, line 168), two samples in one millisecond.
WideSamples == {<<0, 0>>, <<500, 1000>>, <<1000, 1000>>}
WideDeltas == {0, 1000}

\* The samples the Fetch Executor emits, in this order, in the scenario.
ScenarioSamples == << <<500, 1000>>, <<1000, 1000>> >>

\* What pipeline() rejects with: an Error with a message, or a thrown value
\* that is not an Error instance.
Failures ==
    { [isError |-> TRUE, message |-> "network timeout"],
      [isError |-> FALSE, message |-> "raw value"] }

\* The `thrown` of a pipeline() promise that has not rejected.
NoFailure == [isError |-> FALSE, message |-> ""]

\* ------------------------------------------------------- JavaScript values
Undefined == "undefined"
\* x / 0 for x > 0, and 0 / 0, outside the range of every finite value here.
Infinity == 1000000000
NaN == -1000000000

\* JavaScript's `a / b` on the values the model uses (all quotients of the
\* sample sets are integers, so \div is exact on them).
JsDiv(a, b) ==
    IF b = 0
    THEN IF a = 0 THEN NaN ELSE IF a > 0 THEN Infinity ELSE -Infinity
    ELSE IF a >= 0 THEN a \div b ELSE -((-a) \div b)

\* ------------------------------------------------------------------- state
VARIABLES
    activeDownloads, \* modelId -> index into fetches of the progressData object stored, 0 = no entry
    callbacks,       \* modelId -> sequence of registered callback instances (<<>> = no entry)
    fetches,         \* one record per run of downloadModel's fetch path (its closure)
    calls,           \* one record per downloadModel call (its promise)
    timers,          \* pending setTimeout callbacks, in deadline order
    received         \* callback instance -> the invocations it has had

vars == <<activeDownloads, callbacks, fetches, calls, timers, received>>

\* A state that starts from what the last fetch left behind.
CarriedProgressData(modelId) ==
    IF fetches = <<>>
    THEN [ modelId |-> modelId, status |-> "downloading", progress |-> 0,
           loaded |-> 0, total |-> 0, speed |-> 0, eta |-> 0, error |-> Undefined ]
    ELSE [fetches[Len(fetches)].progressData EXCEPT
             !.modelId = modelId, !.status = "downloading"]

\* The object literal of lines 147-155.
NewProgressData(modelId) ==
    [ modelId |-> modelId, status |-> "downloading", progress |-> 0,
      loaded |-> 0, total |-> 0, speed |-> 0, eta |-> 0, error |-> Undefined ]

\* The DownloadProgress interface (lines 115-124).
IsDownloadProgress(d) ==
    /\ d.modelId \in ModelIds
    /\ d.status \in {"pending", "downloading", "completed", "error"}
    /\ d.progress \in Int /\ d.loaded \in Int /\ d.total \in Int
    /\ d.speed \in Int /\ d.eta \in Int
    /\ d.error \in STRING

\* The shape of the state.
TypeOK ==
    /\ \A m \in ModelIds : activeDownloads[m] \in 0 .. Len(fetches)
    /\ \A m \in ModelIds : \A i \in DOMAIN callbacks[m] : callbacks[m][i] \in AllCallbacks
    /\ \A f \in DOMAIN fetches :
          /\ fetches[f].modelId \in ModelIds
          /\ fetches[f].call \in DOMAIN calls
          /\ fetches[f].pipeline \in {"pending", "resolved", "rejected"}
          /\ IsDownloadProgress(fetches[f].progressData)
          /\ fetches[f].progressData.modelId = fetches[f].modelId
    /\ \A c \in DOMAIN calls :
          /\ calls[c].modelId \in ModelIds
          /\ calls[c].onProgress \in AllCallbacks \cup {NoCallback}
          /\ calls[c].missed \in Nat
          /\ calls[c].role \in {"original", "joiner"}
          /\ calls[c].fetch \in DOMAIN fetches
          /\ calls[c].outcome \in {"pending", "resolved", "rejected"}
    /\ \A t \in DOMAIN timers :
          /\ timers[t].kind \in {"evict", "poll"}
          /\ timers[t].modelId \in ModelIds
          /\ timers[t].kind = "poll" => timers[t].call \in DOMAIN calls
    /\ \A cb \in AllCallbacks : \A i \in DOMAIN received[cb] :
          /\ received[cb][i].ref \in DOMAIN fetches
          /\ IsDownloadProgress(received[cb][i].state)

Init ==
    /\ activeDownloads = [m \in ModelIds |-> 0]
    /\ callbacks = [m \in ModelIds |-> <<>>]
    /\ fetches = <<>>
    /\ calls = <<>>
    /\ timers = <<>>
    /\ received = [c \in AllCallbacks |-> <<>>]

\* ----------------------------------------------------------------- helpers
\* The progressData object the map holds for modelId (activeDownloads.get).
Entry(modelId) == fetches[activeDownloads[modelId]].progressData

Has(modelId) == activeDownloads[modelId] # 0

\* activeDownloads.get(modelId) on the map `map` over the objects `objs`.
Get(map, objs, modelId) ==
    IF map[modelId] # 0 THEN objs[map[modelId]].progressData ELSE Undefined

\* getProgress (lines 244-246): the stored object, or undefined.
getProgress(modelId) == Get(activeDownloads, fetches, modelId)

\* A query that reports every recorded identity as downloading.
isDownloadingLoose(modelId) == activeDownloads[modelId] # 0

\* isDownloading (lines 248-251).
isDownloading(modelId) ==
    Has(modelId) /\ Entry(modelId).status = "downloading"

\* A registration that puts the callback in front of the list.
addProgressCallbackFront(cbs, modelId, callback) ==
    [cbs EXCEPT ![modelId] = <<callback>> \o @]

\* addProgressCallback (lines 211-215): push onto the identity's list.
addProgressCallback(cbs, modelId, callback) ==
    [cbs EXCEPT ![modelId] = Append(@, callback)]

\* `if (onProgress) this.addProgressCallback(modelId, onProgress)`.
Register(cbs, modelId, onProgress) ==
    IF onProgress = NoCallback THEN cbs
    ELSE addProgressCallback(cbs, modelId, onProgress)

\* A forEach that walks the list from its last element to its first.
RECURSIVE ForEachReversed(_, _, _)
ForEachReversed(list, note, rcv) ==
    IF list = <<>> THEN rcv
    ELSE LET cb == list[Len(list)]
             rcv1 == [rcv EXCEPT ![cb] = Append(@, note)]
         IN  IF cb \in Faulty THEN rcv1
             ELSE ForEachReversed(SubSeq(list, 1, Len(list) - 1), note, rcv1)

\* callbacks.forEach((cb) => cb(progress)) (line 219): the callbacks run in
\* list order; an exception raised by one leaves forEach, so the callbacks
\* behind it are not invoked.  `note` is what an invoked callback is handed.
RECURSIVE ForEach(_, _, _)
ForEach(list, note, rcv) ==
    IF list = <<>> THEN rcv
    ELSE LET cb == Head(list)
             rcv1 == [rcv EXCEPT ![cb] = Append(@, note)]
         IN  IF cb \in Faulty THEN rcv1 ELSE ForEach(Tail(list), note, rcv1)

\* notifyProgress (lines 217-220).  The callbacks are handed the progressData
\* object itself; `ref` names the object, `state` its fields at the call.
notifyProgress(cbs, modelId, f, data, rcv) ==
    ForEach(cbs[modelId], [ref |-> f, state |-> data], rcv)

\* What the value a callback was handed in its i-th invocation reads now:
\* the callback was handed the progressData object itself (line 219), and
\* the later writes of lines 176-180, 193-194 and 199-200 are to that object.
Held(cb, i) == fetches[received[cb][i].ref].progressData

\* Whether notifyProgress(modelId, ...) ends by an exception.
NotifyThrows(cbs, modelId) ==
    \E i \in DOMAIN cbs[modelId] : cbs[modelId][i] \in Faulty

\* A finally block that sets no timer.
ScheduleEvictionNever(ts, modelId) == ts

\* setTimeout: the timer list is kept in deadline order.  An eviction timer
\* (5000 ms) has a later deadline than every pending timer.
ScheduleEviction(ts, modelId) ==
    Append(ts, [kind |-> "evict", modelId |-> modelId, call |-> 0])

\* A poll timer (100 ms) has a later deadline than every pending poll timer;
\* it is earlier or later than a pending eviction timer according to how long
\* ago that one was set, which the model leaves open.
LastPoll(ts) ==
    IF \E i \in DOMAIN ts : ts[i].kind = "poll"
    THEN CHOOSE i \in DOMAIN ts :
            /\ ts[i].kind = "poll"
            /\ \A j \in DOMAIN ts : ts[j].kind = "poll" => j <= i
    ELSE 0

PollSlots(ts) == LastPoll(ts) .. Len(ts)

\* A wait that checks the status once and sets no timer.
SchedulePollLost(ts, slot, modelId, call) == ts

SchedulePoll(ts, slot, modelId, call) ==
    SubSeq(ts, 1, slot)
        \o << [kind |-> "poll", modelId |-> modelId, call |-> call] >>
        \o SubSeq(ts, slot + 1, Len(ts))

\* The record of a downloadModel call: its arguments, the fetch it started
\* or joined, how many samples that fetch had been handed before the call,
\* and the state of the promise it returned.
NewCall(modelId, onProgress, role, f, missed) ==
    [ modelId |-> modelId, onProgress |-> onProgress, role |-> role, fetch |-> f,
      missed |-> missed, outcome |-> "pending", handle |-> 0, message |-> "" ]

Resolve(cs, c, handle) ==
    [cs EXCEPT ![c].outcome = "resolved", ![c].handle = handle]

Reject(cs, c, message) ==
    [cs EXCEPT ![c].outcome = "rejected", ![c].message = message]

OnProgressArgs == Callbacks \cup {NoCallback}

\* The promise of fetch f's pipeline() call: pending, resolved or rejected.
InFlight(f) == fetches[f].pipeline = "pending"

\* The identities a call is enumerated with.
Requestable == IF calls = <<>> THEN {FirstId} ELSE ModelIds

\* Samples delivered so far, over all fetches.
RECURSIVE SamplesOf(_)
SamplesOf(fs) ==
    IF fs = <<>> THEN 0 ELSE Head(fs).samples + SamplesOf(Tail(fs))

\* ----------------------------------------------------------------- actions
\* downloadModel, lines 137-145: an entry exists with status 'downloading'.
\* The caller's callback is registered and waitForDownload runs checkStatus
\* once, which finds 'downloading' and sets the first poll timer (line 236).
JoinDownload(modelId, onProgress, slot) ==
    /\ isDownloading(modelId)
    /\ slot \in PollSlots(timers)
    /\ callbacks' = Register(callbacks, modelId, onProgress)
    /\ calls' = Append(calls,
                  NewCall(modelId, onProgress, "joiner", activeDownloads[modelId],
                          fetches[activeDownloads[modelId]].samples))
    /\ timers' = SchedulePoll(timers, slot, modelId, Len(calls) + 1)
    /\ UNCHANGED <<activeDownloads, fetches, received>>

\* Whether downloadModel takes the fetch path (falls through line 145).
StartsFetch(modelId) == ~isDownloading(modelId)

\* downloadModel, lines 147-191: every other case (no entry, or an entry
\* whose status is not 'downloading').  A new progressData object replaces
\* the map entry, the callback is registered and pipeline() is started.
StartDownload(modelId, onProgress) ==
    /\ StartsFetch(modelId)
    /\ fetches' = Append(fetches,
                    [ modelId |-> modelId, call |-> Len(calls) + 1,
                      pipeline |-> "pending", thrown |-> NoFailure,
                      progressData |-> NewProgressData(modelId),
                      lastLoaded |-> 0, samples |-> 0 ])
    /\ activeDownloads' = [activeDownloads EXCEPT ![modelId] = Len(fetches) + 1]
    /\ callbacks' = Register(callbacks, modelId, onProgress)
    /\ calls' = Append(calls, NewCall(modelId, onProgress, "original", Len(fetches) + 1, 0))
    /\ UNCHANGED <<timers, received>>

\* A tracker that stores the fraction loaded / total, not the percentage.
TrackedFraction(data, lastLoaded, loaded, total, dt) ==
    [data EXCEPT !.progress = JsDiv(loaded, total),
                 !.loaded = loaded, !.total = total,
                 !.speed = IF dt > 0 THEN JsDiv((loaded - lastLoaded) * 1000, dt) ELSE 0,
                 !.eta = 0]

\* The fields progressTracker writes (lines 169-183) for one sample.
Tracked(data, lastLoaded, loaded, total, dt) ==
    LET timeDelta == JsDiv(dt, 1000)
        loadedDelta == loaded - lastLoaded
        speed == IF timeDelta > 0 THEN JsDiv(loadedDelta, timeDelta) ELSE 0
        remaining == total - loaded
        eta == IF speed > 0 THEN JsDiv(remaining, speed) ELSE 0
    IN  [data EXCEPT !.progress = JsDiv(loaded * 100, total),
                     !.loaded = loaded, !.total = total,
                     !.speed = speed, !.eta = eta]

\* progressTracker (lines 167-187), called by the running pipeline() of fetch
\* f with a sample of status 'progress'.  An exception of a callback goes to
\* the Fetch Executor; whether pipeline() then rejects is FetchFail's choice.
ProgressSample(f, loaded, total, dt) ==
    /\ InFlight(f)
    /\ LET data == Tracked(fetches[f].progressData, fetches[f].lastLoaded,
                           loaded, total, dt)
       IN  /\ fetches' = [fetches EXCEPT ![f].progressData = data,
                                         ![f].lastLoaded = loaded,
                                         ![f].samples = @ + 1]
           /\ received' = notifyProgress(callbacks, fetches[f].modelId, f, data, received)
    /\ UNCHANGED <<activeDownloads, callbacks, calls, timers>>

\* A catch block that sets the status and leaves the error field alone.
CaughtNoMessage(f, data, failure, rcv) ==
    [ data |-> [data EXCEPT !.status = "error"],
      rcv |-> notifyProgress(callbacks, fetches[f].modelId, f,
                             [data EXCEPT !.status = "error"], rcv),
      message |-> IF NotifyThrows(callbacks, fetches[f].modelId) THEN CallbackError
                  ELSE failure.message ]

\* Lines 199-202: the catch block, entered with the thrown value `failure`.
\* Its own notifyProgress may throw, and that exception then replaces
\* `failure` as what the promise is rejected with.
Caught(f, data, failure, rcv) ==
    LET modelId == fetches[f].modelId
        errData == [data EXCEPT !.status = "error",
                                !.error = IF failure.isError THEN failure.message
                                          ELSE "Unknown error"]
    IN  [ data |-> errData,
          rcv |-> notifyProgress(callbacks, modelId, f, errData, rcv),
          message |-> IF NotifyThrows(callbacks, modelId) THEN CallbackError
                      ELSE failure.message ]

\* pipeline() of fetch f resolves: lines 193-197, then finally (203-208).
\* If the notification of line 195 throws, the catch block runs as well.
FetchSucceed(f) ==
    /\ InFlight(f)
    /\ LET modelId == fetches[f].modelId
           done == [fetches[f].progressData EXCEPT !.status = "completed", !.progress = 100]
           rcv1 == notifyProgress(callbacks, modelId, f, done, received)
       IN  IF NotifyThrows(callbacks, modelId)
           THEN LET c == Caught(f, done, [isError |-> TRUE, message |-> CallbackError], rcv1)
                IN  /\ fetches' = [fetches EXCEPT ![f].pipeline = "resolved",
                                                  ![f].progressData = c.data]
                    /\ received' = c.rcv
                    /\ calls' = Reject(calls, fetches[f].call, c.message)
           ELSE /\ fetches' = [fetches EXCEPT ![f].pipeline = "resolved",
                                              ![f].progressData = done]
                /\ received' = rcv1
                /\ calls' = Resolve(calls, fetches[f].call, f)
    /\ timers' = ScheduleEviction(timers, fetches[f].modelId)
    /\ UNCHANGED <<activeDownloads, callbacks>>

\* pipeline() of fetch f rejects with `failure`: catch (198-202), finally.
FetchFail(f, failure) ==
    /\ InFlight(f)
    /\ LET c == Caught(f, fetches[f].progressData, failure, received)
       IN  /\ fetches' = [fetches EXCEPT ![f].pipeline = "rejected",
                                         ![f].thrown = failure,
                                         ![f].progressData = c.data]
           /\ received' = c.rcv
           /\ calls' = Reject(calls, fetches[f].call, c.message)
    /\ timers' = ScheduleEviction(timers, fetches[f].modelId)
    /\ UNCHANGED <<activeDownloads, callbacks>>

\* A timer callback that clears the whole map.
EvictedAll(map, modelId, empty) == [m \in ModelIds |-> empty]

\* The timer callback of lines 204-207.
Evicted(map, modelId, empty) == [map EXCEPT ![modelId] = empty]

EvictionTimer ==
    /\ timers # <<>>
    /\ Head(timers).kind = "evict"
    /\ activeDownloads' = Evicted(activeDownloads, Head(timers).modelId, 0)
    /\ callbacks' = Evicted(callbacks, Head(timers).modelId, <<>>)
    /\ timers' = Tail(timers)
    /\ UNCHANGED <<fetches, calls, received>>

\* What checkStatus (lines 224-238) decides for a waiting caller:
\* "cancelled", "resolve", "reject" or "wait".
CheckStatus(modelId) ==
    IF ~Has(modelId) THEN "cancelled"
    ELSE IF Entry(modelId).status = "completed" THEN "resolve"
    ELSE IF Entry(modelId).status = "error" THEN "reject"
    ELSE "wait"

\* progress.error || 'Download failed' (line 234).
JoinerError(error) ==
    IF error = Undefined \/ error = "" THEN "Download failed" ELSE error

\* A poll timer fires: checkStatus of waitForDownload for caller c.
PollTimer(slot) ==
    /\ timers # <<>>
    /\ Head(timers).kind = "poll"
    /\ LET c == Head(timers).call
           modelId == Head(timers).modelId
           verdict == CheckStatus(modelId)
       IN  /\ verdict = "wait" => slot \in PollSlots(Tail(timers))
           /\ verdict # "wait" => slot = 0
           /\ timers' = IF verdict = "wait"
                        THEN SchedulePoll(Tail(timers), slot, modelId, c)
                        ELSE Tail(timers)
           /\ calls' = CASE verdict = "cancelled" -> Reject(calls, c, "Download cancelled")
                         [] verdict = "resolve" -> Resolve(calls, c, 0)
                         [] verdict = "reject" -> Reject(calls, c, JoinerError(Entry(modelId).error))
                         [] OTHER -> calls
    /\ UNCHANGED <<activeDownloads, callbacks, fetches, received>>

\* The steps of the event loop, with at most `limit` downloadModel calls.
Step(limit) ==
    \/ /\ Len(calls) < limit
       /\ \E m \in Requestable, cb \in OnProgressArgs : StartDownload(m, cb)
    \/ /\ Len(calls) < limit
       /\ \E m \in Requestable, cb \in OnProgressArgs, slot \in 0 .. Len(timers) :
             JoinDownload(m, cb, slot)
    \/ /\ SamplesOf(fetches) < MaxSamples
       /\ \E f \in DOMAIN fetches, s \in Samples, dt \in TimeDeltas :
             ProgressSample(f, s[1], s[2], dt)
    \/ \E f \in DOMAIN fetches : FetchSucceed(f)
    \/ \E f \in DOMAIN fetches, failure \in Failures : FetchFail(f, failure)
    \/ EvictionTimer
    \/ \E slot \in 0 .. Len(timers) : PollTimer(slot)

Next == Step(MaxCalls)

Spec == Init /\ [][Next]_vars

NextDeep == Step(DeepCalls)

SpecDeep == Init /\ [][NextDeep]_vars

\* pipeline() settles: the promise a fetch awaits resolves or rejects.
FetchSettles ==
    \E f \in DOMAIN fetches :
        FetchSucceed(f) \/ \E failure \in Failures : FetchFail(f, failure)

\* The behaviours in which every pipeline() promise eventually settles and
\* every timer that was set eventually fires.
SpecLive ==
    /\ Init /\ [][Next]_vars
    /\ WF_vars(FetchSettles)
    /\ WF_vars(EvictionTimer)
    /\ WF_vars(\E slot \in 0 .. Len(timers) : PollTimer(slot))

\* One downloadModel call and the samples its progressTracker is handed.
NextTracker ==
    \/ /\ calls = <<>>
       /\ \E cb \in OnProgressArgs : StartDownload(FirstId, cb)
    \/ /\ SamplesOf(fetches) < TrackerSamples
       /\ \E f \in DOMAIN fetches, s \in WideSamples, dt \in WideDeltas :
             ProgressSample(f, s[1], s[2], dt)
    \/ \E f \in DOMAIN fetches : FetchSucceed(f)
    \/ \E f \in DOMAIN fetches, failure \in Failures : FetchFail(f, failure)
    \/ EvictionTimer

SpecTracker == Init /\ [][NextTracker]_vars

\* One identity shared by several callers: the first call starts the fetch,
\* the others join it or follow it, and the fetch is handed up to
\* TrackerSamples samples.
NextShared ==
    \/ /\ Len(calls) < MaxCalls
       /\ \E cb \in OnProgressArgs : StartDownload(FirstId, cb)
    \/ /\ Len(calls) < MaxCalls
       /\ \E cb \in OnProgressArgs, slot \in 0 .. Len(timers) :
             JoinDownload(FirstId, cb, slot)
    \/ /\ SamplesOf(fetches) < TrackerSamples
       /\ \E f \in DOMAIN fetches, s \in Samples, dt \in TimeDeltas :
             ProgressSample(f, s[1], s[2], dt)
    \/ \E f \in DOMAIN fetches : FetchSucceed(f)
    \/ \E f \in DOMAIN fetches, failure \in Failures : FetchFail(f, failure)
    \/ EvictionTimer
    \/ \E slot \in 0 .. Len(timers) : PollTimer(slot)

SpecShared == Init /\ [][NextShared]_vars

\* The scenario of three callers of "m1": the Fetch Executor emits
\* ScenarioSamples in order, one second apart, and then resolves.
NextScenario ==
    \/ /\ Len(calls) < Len(Observers)
       /\ StartDownload(FirstId, Observers[Len(calls) + 1])
    \/ /\ Len(calls) < Len(Observers)
       /\ \E slot \in 0 .. Len(timers) :
             JoinDownload(FirstId, Observers[Len(calls) + 1], slot)
    \/ \E f \in DOMAIN fetches :
          /\ fetches[f].samples < Len(ScenarioSamples)
          /\ ProgressSample(f, ScenarioSamples[fetches[f].samples + 1][1],
                            ScenarioSamples[fetches[f].samples + 1][2], 1000)
    \/ \E f \in DOMAIN fetches :
          /\ fetches[f].samples = Len(ScenarioSamples)
          /\ FetchSucceed(f)
    \/ EvictionTimer
    \/ \E slot \in 0 .. Len(timers) : PollTimer(slot)

SpecScenario == Init /\ [][NextScenario]_vars

\* ------------------------------------------------------------ properties
Terminal == {"completed", "error"}

\* The step is a downloadModel call (StartDownload or JoinDownload).
IsCall == Len(calls') = Len(calls) + 1

\* The call a downloadModel step adds.
Issued == calls'[Len(calls')]

\* The original requester of the fetch a call started or joined.
Requester(c) == fetches[calls[c].fetch].call

\* Fetches of modelId whose pipeline() promise is pending.
Running(modelId) ==
    {f \in DOMAIN fetches : fetches[f].modelId = modelId /\ InFlight(f)}

\* Terminal notifications of fetch f a callback instance has been handed.
TerminalNotes(cb, f) ==
    {i \in DOMAIN received[cb] :
        received[cb][i].ref = f /\ received[cb][i].state.status \in Terminal}

\* Calls that registered the callback instance cb for fetch f.
Registrations(cb, f) ==
    {c \in DOMAIN calls : calls[c].fetch = f /\ calls[c].onProgress = cb}

\* C1: any downloadModel call for an identity issued while an earlier
\* requester of that identity is still waiting for its fetch does not invoke
\* the Fetch Executor again: it is attached as a joiner.
C1_Dedup ==
    [][ IsCall =>
          \A c \in DOMAIN calls :
             ( /\ calls[c].modelId = Issued.modelId
               /\ calls[c].role = "original"
               /\ calls[c].outcome = "pending" )
             => (Issued.role = "joiner" /\ fetches' = fetches) ]_vars

\* C2: in every reachable state at most one fetch per identity is in flight.
C2_AtMostOneFetch ==
    \A m \in ModelIds : Cardinality(Running(m)) <= 1

\* C3: a joiner that has settled has the outcome of the original requester
\* of the fetch it joined: the same handle on success, the same error on
\* failure.
C3_JoinerSameOutcome ==
    \A j \in DOMAIN calls :
        (calls[j].role = "joiner" /\ calls[j].outcome # "pending") =>
            /\ calls[j].outcome = calls[Requester(j)].outcome
            /\ calls[j].handle = calls[Requester(j)].handle
            /\ calls[j].message = calls[Requester(j)].message

\* C4: a downloadModel call that finds the identity's entry terminal (not yet
\* evicted) starts no fetch and leaves the terminal entry in place.
C4_TerminalWindowNoFetch ==
    [][ (IsCall /\ Has(Issued.modelId) /\ Entry(Issued.modelId).status \in Terminal)
          => (fetches' = fetches /\ activeDownloads' = activeDownloads) ]_vars

\* C5: once getProgress shows a terminal status for an identity, the next
\* observation shows a terminal status or, after eviction, nothing.
C5_StatusForward ==
    [][ \A m \in ModelIds :
          (Has(m) /\ getProgress(m).status \in Terminal)
             => (~Has(m)' \/ getProgress(m)'.status \in Terminal) ]_vars

\* C6: once a fetch has reached a terminal status, every callback instance
\* has been handed its terminal notification once per registration made for
\* that fetch.
C6_FanOutComplete ==
    \A f \in DOMAIN fetches : \A cb \in Callbacks :
        ~InFlight(f) =>
            Cardinality(TerminalNotes(cb, f)) = Cardinality(Registrations(cb, f))

\* The notifications callback instance cb is handed in the step.
NewNotes(cb) == Len(received'[cb]) - Len(received[cb])

\* The step notifies the subscribers of modelId.
Notifies(modelId) ==
    \E cb \in Callbacks :
        /\ NewNotes(cb) > 0
        /\ received'[cb][Len(received'[cb])].state.modelId = modelId

\* Registrations of the callback instance cb in the list.
Count(list, cb) == Cardinality({i \in DOMAIN list : list[i] = cb})

\* C7: in a step that notifies an identity's subscribers, a callback that is
\* registered behind one that raises is still invoked: its instance is handed
\* the notification once per registration.
C7_FaultIsolation ==
    [][ \A m \in ModelIds : \A j \in DOMAIN callbacks[m] :
          ( /\ Notifies(m)
            /\ \E i \in 1 .. (j - 1) : callbacks[m][i] \in Faulty )
          => NewNotes(callbacks[m][j]) >= Count(callbacks[m], callbacks[m][j]) ]_vars

\* C8: when pipeline() resolved, the fetch's state is completed and the
\* original requester resolved with the fetched handle, whatever the
\* subscribers did.
C8_SuccessSurvivesFault ==
    \A f \in DOMAIN fetches :
        fetches[f].pipeline = "resolved" =>
            /\ fetches[f].progressData.status = "completed"
            /\ calls[fetches[f].call].outcome = "resolved"
            /\ calls[fetches[f].call].handle = f

\* Callers of fetch f (the requester and its joiners) that have settled.
SettledCallers(f) ==
    {c \in DOMAIN calls : calls[c].fetch = f /\ calls[c].outcome # "pending"}

\* C9: when pipeline() rejected with an Error, the state is error with that
\* Error's message, and every settled caller of the fetch (requester and
\* joiners) is rejected with that message.
C9_FailurePropagates ==
    \A f \in DOMAIN fetches :
        (fetches[f].pipeline = "rejected" /\ fetches[f].thrown.isError) =>
            /\ fetches[f].progressData.status = "error"
            /\ fetches[f].progressData.error = fetches[f].thrown.message
            /\ \A c \in SettledCallers(f) :
                  /\ calls[c].outcome = "rejected"
                  /\ calls[c].message = fetches[f].thrown.message

\* Whether getProgress(modelId) returns an object after the step.
HasAfter(modelId) == activeDownloads'[modelId] # 0

\* What getProgress(modelId) returns after the step.
After(modelId) == Get(activeDownloads', fetches', modelId)

\* The step is the firing of an eviction timer.
IsEviction ==
    /\ timers # <<>>
    /\ Head(timers).kind = "evict"
    /\ timers' = Tail(timers)
    /\ calls' = calls

\* C10: when an eviction timer fires, getProgress of its identity is absent
\* afterwards; and a downloadModel call for an identity with no entry starts
\* one new pipeline() with a new state: status 'downloading', loaded 0,
\* total 0, no error, whatever the previous fetch ended with.
C10_EvictionThenFresh ==
    [][ /\ IsEviction => ~HasAfter(Head(timers).modelId)
        /\ (IsCall /\ ~Has(Issued.modelId)) =>
              /\ Len(fetches') = Len(fetches) + 1
              /\ activeDownloads'[Issued.modelId] = Len(fetches')
              /\ fetches'[Len(fetches')].pipeline = "pending"
              /\ After(Issued.modelId).status = "downloading"
              /\ After(Issued.modelId).loaded = 0
              /\ After(Issued.modelId).total = 0
              /\ After(Issued.modelId).progress = 0
              /\ After(Issued.modelId).error = Undefined ]_vars

\* C10 witness: the first fetch of "m1" failed, was evicted (no timer is
\* left), and a later call has started a second fetch with a new state.
C10_Witness ==
    /\ Len(fetches) = 2
    /\ fetches[1].modelId = "m1" /\ fetches[2].modelId = "m1"
    /\ fetches[1].progressData.status = "error"
    /\ fetches[1].progressData.loaded > 0
    /\ timers = <<>>
    /\ activeDownloads["m1"] = 2
    /\ fetches[2].progressData.status = "downloading"
    /\ fetches[2].progressData.loaded = 0

\* The step hands fetch f's progressTracker a sample.
IsSample(f) == fetches'[f].samples = fetches[f].samples + 1

\* C11: from one sample of a fetch to the next, the state's loaded does not
\* decrease, and neither does its progress once total is known (> 0).
C11_MonotonicProgress ==
    [][ \A f \in DOMAIN fetches :
          IsSample(f) =>
             /\ fetches'[f].progressData.loaded >= fetches[f].progressData.loaded
             /\ (fetches[f].progressData.total > 0 /\ fetches'[f].progressData.total > 0)
                   => fetches'[f].progressData.progress >= fetches[f].progressData.progress
      ]_vars

\* C12: the speed of every state is >= 0.
C12_SpeedNonNegative ==
    \A f \in DOMAIN fetches : fetches[f].progressData.speed >= 0

\* The notifications of fetch f among those callback instance cb was handed.
NotesOf(cb, f) == SelectSeq(received[cb], LAMBDA n : n.ref = f)

\* The percentages callback instance cb has observed for fetch f, in order.
Percentages(cb, f) ==
    [i \in 1 .. Len(NotesOf(cb, f)) |-> NotesOf(cb, f)[i].state.progress]

\* The callers of the scenario's first fetch, once it has resolved.
ScenarioCallers ==
    IF fetches # <<>> /\ fetches[1].pipeline = "resolved"
    THEN {c \in DOMAIN calls : calls[c].fetch = 1}
    ELSE {}

\* C13 as stated: a caller there from the start observes [50, 100], and a
\* caller that joined after the first sample observes [100].
C13_AsStated ==
    \A c \in ScenarioCallers :
        /\ calls[c].missed = 0 => Percentages(calls[c].onProgress, 1) = <<50, 100>>
        /\ calls[c].missed = 1 => Percentages(calls[c].onProgress, 1) = <<100>>

\* C13 amended: the terminal notification repeats 100, so a caller there from
\* the start observes [50, 100, 100], one that joined after the first sample
\* [100, 100], and one that joined after the second sample [100].
C13_Scenario ==
    \A c \in ScenarioCallers :
        Percentages(calls[c].onProgress, 1) =
            SubSeq(<<50, 100, 100>>, calls[c].missed + 1, 3)

\* C13 witness: the first fetch resolved with three callers, the third of
\* which joined between the two samples.
C13_Witness ==
    /\ Cardinality(ScenarioCallers) = 3
    /\ calls[2].missed = 0
    /\ calls[3].missed = 1
    /\ Percentages("cb3", 1) = <<100, 100>>

\* C14: getProgress of an identity with no recorded state is undefined (a
\* value, not an exception); with a recorded state it is that state; and
\* isDownloading is true exactly when a state is recorded and its status is
\* 'downloading'.  Both queries are expressions over the state: evaluating
\* them changes no variable.
C14_QueryInterface ==
    \A m \in ModelIds :
        /\ activeDownloads[m] = 0 => getProgress(m) = Undefined
        /\ activeDownloads[m] # 0 =>
               getProgress(m) = fetches[activeDownloads[m]].progressData
        /\ isDownloading(m) <=>
               /\ activeDownloads[m] # 0
               /\ fetches[activeDownloads[m]].progressData.status = "downloading"

\* C14 witness: an identity that was recorded has been evicted and
\* getProgress answers undefined for it, while another identity is recorded
\* with a terminal status, for which isDownloading answers false.
C14_Witness ==
    \E m, n \in ModelIds :
        /\ activeDownloads[m] = 0 /\ getProgress(m) = Undefined
        /\ \E f \in DOMAIN fetches : fetches[f].modelId = m
        /\ activeDownloads[n] # 0
        /\ getProgress(n).status \in Terminal /\ ~isDownloading(n)

\* C15: every downloadModel call, original or joiner, eventually resolves or
\* rejects, provided every pipeline() promise settles and timers fire.
C15_EverySettles ==
    \A c \in 1 .. MaxCalls :
        (c \in DOMAIN calls) ~> (c \in DOMAIN calls /\ calls[c].outcome # "pending")

\* C15 witness: a joiner and the original requester of its fetch have both
\* settled.
C15_Witness ==
    \E c, d \in DOMAIN calls :
        /\ calls[c].role = "joiner" /\ calls[c].outcome # "pending"
        /\ calls[d].role = "original" /\ calls[d].fetch = calls[c].fetch
        /\ calls[d].outcome # "pending"

\* C16: when an eviction timer fires and its identity has an entry, that
\* entry's status is terminal: the timer never deletes a downloading entry.
C16_EvictsOnlyTerminal ==
    [][ IsEviction =>
          (Has(Head(timers).modelId) =>
              Entry(Head(timers).modelId).status \in Terminal) ]_vars

\* C17: while a fetch's pipeline() promise is pending, the entry of its
\* identity is that fetch's state, so getProgress returns it and
\* isDownloading is true.
C17_InFlightHasEntry ==
    \A f \in DOMAIN fetches :
        InFlight(f) =>
            /\ activeDownloads[fetches[f].modelId] = f
            /\ isDownloading(fetches[f].modelId)

\* The joiners whose promise has settled.
SettledJoiners ==
    {c \in DOMAIN calls : calls[c].role = "joiner" /\ calls[c].outcome # "pending"}

\* C18: a joiner is rejected only when the fetch it joined has failed, never
\* while that fetch is in flight or after it succeeded.
C18_NoCancellation ==
    \A c \in SettledJoiners :
        calls[c].outcome = "rejected" =>
            fetches[calls[c].fetch].progressData.status = "error"

\* C19: a settled joiner has resolved if and only if the fetch it joined
\* ended completed, and has been rejected if and only if it ended in error.
C19_JoinerFollowsItsFetch ==
    \A c \in SettledJoiners :
        /\ fetches[calls[c].fetch].progressData.status \in Terminal
        /\ calls[c].outcome = "resolved"
              <=> fetches[calls[c].fetch].progressData.status = "completed"

\* C20: a callback instance is only ever handed the state of a fetch it was
\* registered for, and at most one terminal notification of that fetch per
\* registration.
C20_NoLeak ==
    \A cb \in AllCallbacks : \A i \in DOMAIN received[cb] :
        /\ Registrations(cb, received[cb][i].ref) # {}
        /\ Cardinality(TerminalNotes(cb, received[cb][i].ref))
              <= Cardinality(Registrations(cb, received[cb][i].ref))

\* The first k callbacks of the list `list` are handed `note` in the step,
\* once per registration, and no other callback is handed anything.
HandedToPrefix(list, k, note) ==
    \A cb \in AllCallbacks :
        received'[cb] =
            received[cb] \o [i \in 1 .. Count(SubSeq(list, 1, k), cb) |-> note]

\* C21: the step that hands a fetch a sample writes that sample into the
\* state and, in the same step, appends the written state to the log of the
\* callbacks of a prefix of the registration list (all of it when no
\* callback raises): notifications follow the order of the samples, none is
\* deferred past the next sample, and callbacks run in registration order.
C21_Ordering ==
    [][ \A f \in DOMAIN fetches :
          IsSample(f) =>
             /\ fetches'[f].progressData.loaded = fetches'[f].lastLoaded
             /\ \E k \in 0 .. Len(callbacks[fetches[f].modelId]) :
                   /\ HandedToPrefix(callbacks[fetches[f].modelId], k,
                                     [ref |-> f, state |-> fetches'[f].progressData])
                   /\ k < Len(callbacks[fetches[f].modelId])
                         => (k > 0 /\ callbacks[fetches[f].modelId][k] \in Faulty)
       ]_vars

\* C21 witness: two callbacks are registered, cb1 first, and the fetch has
\* been handed (500, 1000) and then (1000, 1000); cb1 holds both in order.
C21_Witness ==
    /\ Len(callbacks[FirstId]) = 2
    /\ callbacks[FirstId][1] = "cb1"
    /\ Len(received["cb1"]) = 2
    /\ received["cb1"][1].state.loaded = 500
    /\ received["cb1"][2].state.loaded = 1000
    /\ Len(received["cbThrow"]) >= 1

\* C22: every stored state and every notified state whose status is
\* 'completed' has progress 100, and once pipeline() has resolved, the
\* original requester is resolved with the handle pipeline() returned.
C22_CompletedIs100 ==
    /\ \A f \in DOMAIN fetches :
          /\ fetches[f].progressData.status = "completed"
                => fetches[f].progressData.progress = 100
          /\ fetches[f].pipeline = "resolved"
                => /\ calls[fetches[f].call].outcome = "resolved"
                   /\ calls[fetches[f].call].handle = f
    /\ \A cb \in AllCallbacks : \A i \in DOMAIN received[cb] :
          received[cb][i].state.status = "completed"
             => received[cb][i].state.progress = 100

\* C23: a state carries an error message exactly when its status is
\* 'error', in the stored states and in the states handed to callbacks.
C23_ErrorOnlyInError ==
    /\ \A f \in DOMAIN fetches :
          fetches[f].progressData.error # Undefined
             <=> fetches[f].progressData.status = "error"
    /\ \A cb \in AllCallbacks : \A i \in DOMAIN received[cb] :
          received[cb][i].state.error # Undefined
             <=> received[cb][i].state.status = "error"

\* C23 witness: cb1 was handed a sample without a message and then the
\* error state with the message of the Error pipeline() rejected with.
C23_Witness ==
    /\ Len(received["cb1"]) = 2
    /\ received["cb1"][1].state.status = "downloading"
    /\ received["cb1"][1].state.error = Undefined
    /\ received["cb1"][2].state.status = "error"
    /\ received["cb1"][2].state.error = "network timeout"
    /\ fetches[received["cb1"][2].ref].progressData.error = "network timeout"

\* The states stored for the fetches and the states handed to callbacks.
ObservedStates ==
    {fetches[f].progressData : f \in DOMAIN fetches}
        \cup UNION {{received[cb][i].state : i \in DOMAIN received[cb]} : cb \in AllCallbacks}

\* C24: a percentage computed from a known total lies in [0, 100], and a
\* state whose total is 0 never shows the result of a division by zero.
C24_PercentageClamped ==
    \A d \in ObservedStates :
        /\ d.total # 0 => d.progress \in 0 .. 100
        /\ d.total = 0 => d.progress \notin {NaN, Infinity, -Infinity}

\* C25: in the state a sample has written, eta is (total - loaded) / speed
\* when speed > 0, and is not 0 when speed is 0 (checked where bytes remain,
\* so that 0 cannot be read as "nothing left").
C25_EtaDerivation ==
    \A f \in DOMAIN fetches :
        fetches[f].samples > 0 =>
            /\ fetches[f].progressData.speed > 0
                  => fetches[f].progressData.eta =
                        JsDiv(fetches[f].progressData.total - fetches[f].progressData.loaded,
                              fetches[f].progressData.speed)
            /\ ( /\ fetches[f].progressData.speed = 0
                 /\ fetches[f].progressData.total > fetches[f].progressData.loaded )
                  => fetches[f].progressData.eta # 0

\* The step leaves the entry and the subscriber list of modelId as they
\* were.
Untouched(modelId) ==
    /\ activeDownloads'[modelId] = activeDownloads[modelId]
    /\ Has(modelId) => After(modelId) = Entry(modelId)
    /\ callbacks'[modelId] = callbacks[modelId]

\* Every invocation of a callback made in the step hands over a state of
\* modelId.
NotifiesOnly(modelId) ==
    \A cb \in AllCallbacks :
        \A i \in (Len(received[cb]) + 1) .. Len(received'[cb]) :
            /\ received'[cb][i].state.modelId = modelId
            /\ fetches'[received'[cb][i].ref].modelId = modelId

\* C26: every step belongs to one identity: the entries and subscriber
\* lists of all other identities are unchanged, and the callbacks invoked
\* are those of that identity, with that identity's state.
C26_CrossIdentity ==
    [][ \E a \in ModelIds :
          /\ NotifiesOnly(a)
          /\ \A b \in ModelIds \ {a} : Untouched(b) ]_vars

\* C26 witness: both identities have an entry and a subscriber; "m1" has
\* been notified of its completion while "m2" is still downloading with its
\* subscriber not yet invoked.
C26_Witness ==
    /\ Has("m1") /\ Has("m2")
    /\ callbacks["m1"] = <<"cb1">> /\ callbacks["m2"] = <<"cbThrow">>
    /\ Entry("m1").status = "completed"
    /\ Entry("m2").status = "downloading"
    /\ Len(received["cb1"]) >= 1
    /\ received["cbThrow"] = <<>>

\* C27: an identity has subscribers only while it has an entry, before and
\* after every step; a step leaves a subscriber list alone, appends one
\* callback to it, or is the eviction step, which empties it together with
\* the entry.
C27_ListLifecycle ==
    [][ \A m \in ModelIds :
          /\ callbacks[m] # <<>> => Has(m)
          /\ callbacks'[m] # <<>> => HasAfter(m)
          /\ \/ callbacks'[m] = callbacks[m]
             \/ \E cb \in AllCallbacks : callbacks'[m] = Append(callbacks[m], cb)
             \/ /\ IsEviction /\ Head(timers).modelId = m
                /\ callbacks'[m] = <<>> /\ ~HasAfter(m) ]_vars

\* C27 witness: two calls registered a callback for "m1", the second by
\* joining, and the eviction step has since dropped list and entry.
C27_Witness ==
    /\ Len(calls) = 2
    /\ \A c \in DOMAIN calls :
          calls[c].modelId = FirstId /\ calls[c].onProgress # NoCallback
    /\ calls[2].role = "joiner"
    /\ callbacks[FirstId] = <<>> /\ ~Has(FirstId)

\* Every pipeline() promise has settled.
AllSettled == \A f \in DOMAIN fetches : ~InFlight(f)

\* Both maps of the DownloadManager are empty.
MapsEmpty == \A m \in ModelIds : ~Has(m) /\ callbacks[m] = <<>>

\* C28: a state that has reached a terminal status eventually leaves the
\* map, and once every fetch has settled both maps eventually become empty
\* unless a further downloadModel call arrives.
C28_EventuallyEvicted ==
    /\ \A f \in 1 .. MaxCalls :
          (f \in DOMAIN fetches /\ fetches[f].progressData.status \in Terminal)
             ~> (f \in DOMAIN fetches /\ activeDownloads[fetches[f].modelId] # f)
    /\ \A n \in 0 .. MaxCalls :
          (Len(calls) = n /\ AllSettled) ~> (MapsEmpty \/ Len(calls) > n)

\* C28 witness: a fetch whose subscriber raised has settled, and both maps
\* and the timer list are empty again.
C28_Witness ==
    /\ \E f \in DOMAIN fetches :
          /\ fetches[f].progressData.status \in Terminal
          /\ calls[fetches[f].call].onProgress \in Faulty
    /\ AllSettled /\ MapsEmpty /\ timers = <<>>

\* The step settles fetch f: its pipeline() promise was pending and is not.
IsSettle(f) == InFlight(f) /\ fetches'[f].pipeline # "pending"

\* C29: a callback instance that is k times in an identity's list is invoked
\* k times by every sample of that identity, and at least k times by the
\* step that makes the state terminal.
C29_NoDedup ==
    [][ \A f \in DOMAIN fetches : \A cb \in AllCallbacks :
          /\ IsSample(f)
                => NewNotes(cb) = Count(callbacks[fetches[f].modelId], cb)
          /\ IsSettle(f)
                => NewNotes(cb) >= Count(callbacks[fetches[f].modelId], cb)
       ]_vars

\* C30: the value a callback was handed in a notification still reads what
\* it read when it was handed over.
C30_Snapshot ==
    \A cb \in AllCallbacks : \A i \in DOMAIN received[cb] :
        Held(cb, i) = received[cb][i].state

====
